---- MODULE Spec2Model ----
(***************************************************************************)
(* Model of Number::from_str (src/value.rs): the lexical state machine     *)
(* that extracts a numeric buffer and an optional SI magnitude suffix, the *)
(* f64 parse of the buffer, and the comparison of Number values.           *)
(*                                                                         *)
(* A string is a sequence of one-character strings.  An f64 is its IEEE    *)
(* 754 binary64 bit pattern: sign, 11-bit biased exponent and the 52-bit   *)
(* fraction held as two 26-bit halves.                                     *)
(***************************************************************************)
EXTENDS Integers, Sequences, FiniteSets, TLC

\* ------------------------------------------------------------------------
\* Characters
\* ------------------------------------------------------------------------

\* '0'..='9'
Digits == {"0", "1", "2", "3", "4", "5", "6", "7", "8", "9"}

\* numeric value of an ASCII digit
DigitVal(ch) ==
    CASE ch = "0" -> 0 [] ch = "1" -> 1 [] ch = "2" -> 2 [] ch = "3" -> 3
      [] ch = "4" -> 4 [] ch = "5" -> 5 [] ch = "6" -> 6 [] ch = "7" -> 7
      [] ch = "8" -> 8 [] ch = "9" -> 9

UpperLetters == {"A", "B", "C", "D", "E", "F", "G", "H", "I", "J", "K", "L", "M",
                 "N", "O", "P", "Q", "R", "S", "T", "U", "V", "W", "X", "Y", "Z"}

LowerLetters == {"a", "b", "c", "d", "e", "f", "g", "h", "i", "j", "k", "l", "m",
                 "n", "o", "p", "q", "r", "s", "t", "u", "v", "w", "x", "y", "z"}

\* char::is_ascii_alphabetic
IsAsciiAlphabetic(ch) == ch \in UpperLetters \cup LowerLetters

\* char::to_ascii_uppercase
ToAsciiUppercase(ch) ==
    CASE ch = "a" -> "A" [] ch = "b" -> "B" [] ch = "c" -> "C" [] ch = "d" -> "D"
      [] ch = "e" -> "E" [] ch = "f" -> "F" [] ch = "g" -> "G" [] ch = "h" -> "H"
      [] ch = "i" -> "I" [] ch = "j" -> "J" [] ch = "k" -> "K" [] ch = "l" -> "L"
      [] ch = "m" -> "M" [] ch = "n" -> "N" [] ch = "o" -> "O" [] ch = "p" -> "P"
      [] ch = "q" -> "Q" [] ch = "r" -> "R" [] ch = "s" -> "S" [] ch = "t" -> "T"
      [] ch = "u" -> "U" [] ch = "v" -> "V" [] ch = "w" -> "W" [] ch = "x" -> "X"
      [] ch = "y" -> "Y" [] ch = "z" -> "Z" [] OTHER -> ch

\* String::to_ascii_uppercase
StrToAsciiUppercase(str) == [i \in 1..Len(str) |-> ToAsciiUppercase(str[i])]

\* ------------------------------------------------------------------------
\* Natural numbers of any size: little-endian limbs in base 2^13, without
\* leading zero limbs (<<>> is zero).  They carry the 53-bit significands
\* and the decimal-to-binary conversion of f64.
\* ------------------------------------------------------------------------

LimbBits == 13
Base == 8192

RECURSIVE BigNorm(_)
BigNorm(a) ==
    IF a = <<>> THEN <<>>
    ELSE IF a[Len(a)] = 0 THEN BigNorm(SubSeq(a, 1, Len(a) - 1))
    ELSE a

\* limbs lo..hi of a * k + carry and the carry out of them, for k < 2^17 and
\* carry < 2^17 (the range is halved so that the evaluation stays shallow)
RECURSIVE BigMulSmallRange(_, _, _, _, _)
BigMulSmallRange(a, k, carry, lo, hi) ==
    IF lo > hi THEN [d |-> <<>>, c |-> carry]
    ELSE IF lo = hi
    THEN LET t == a[lo] * k + carry
         IN  [d |-> <<t % Base>>, c |-> t \div Base]
    ELSE LET mid   == (lo + hi) \div 2
             lower == BigMulSmallRange(a, k, carry, lo, mid)
             upper == BigMulSmallRange(a, k, lower.c, mid + 1, hi)
         IN  [d |-> lower.d \o upper.d, c |-> upper.c]

\* a * k + carry
BigMulSmall(a, k, carry) ==
    LET res == BigMulSmallRange(a, k, carry, 1, Len(a))
    IN  BigNorm(res.d \o <<res.c % Base, res.c \div Base>>)

\* a + b
RECURSIVE BigAddFrom(_, _, _, _)
BigAddFrom(a, b, carry, i) ==
    IF i > Len(a) /\ i > Len(b)
    THEN IF carry = 0 THEN <<>> ELSE <<carry>>
    ELSE LET t == (IF i <= Len(a) THEN a[i] ELSE 0)
                  + (IF i <= Len(b) THEN b[i] ELSE 0) + carry
         IN  <<t % Base>> \o BigAddFrom(a, b, t \div Base, i + 1)

BigAdd(a, b) == BigAddFrom(a, b, 0, 1)

\* a * b
RECURSIVE BigMulFrom(_, _, _)
BigMulFrom(a, b, j) ==
    IF j > Len(b) THEN <<>>
    ELSE BigAdd([i \in 1..(j - 1) |-> 0] \o BigMulSmall(a, b[j], 0),
                BigMulFrom(a, b, j + 1))

BigMul(a, b) == BigNorm(BigMulFrom(a, b, 1))

\* limbs hi down to lo of floor(a / d), most significant first, given the
\* remainder rem left by the limbs above hi, and the remainder they leave;
\* 0 < d < 2^17
RECURSIVE BigDivSmallRange(_, _, _, _, _)
BigDivSmallRange(a, d, rem, lo, hi) ==
    IF lo > hi THEN [d |-> <<>>, r |-> rem]
    ELSE IF lo = hi
    THEN LET t == rem * Base + a[lo]
         IN  [d |-> <<t \div d>>, r |-> t % d]
    ELSE LET mid   == (lo + hi) \div 2
             upper == BigDivSmallRange(a, d, rem, mid + 1, hi)
             lower == BigDivSmallRange(a, d, upper.r, lo, mid)
         IN  [d |-> upper.d \o lower.d, r |-> lower.r]

Reverse(seq) == [i \in 1..Len(seq) |-> seq[Len(seq) + 1 - i]]

\* floor(a / d) and the remainder
BigDivSmall(a, d) ==
    LET res == BigDivSmallRange(a, d, 0, 1, Len(a))
    IN  [q |-> BigNorm(Reverse(res.d)), r |-> res.r]

RECURSIVE Pow2(_)
Pow2(n) == IF n = 0 THEN 1 ELSE 2 * Pow2(n - 1)

RECURSIVE Pow10(_)
Pow10(n) == IF n = 0 THEN 1 ELSE 10 * Pow10(n - 1)

RECURSIVE IntBitLen(_)
IntBitLen(n) == IF n = 0 THEN 0 ELSE 1 + IntBitLen(n \div 2)

\* number of bits of a (0 for zero)
BigBitLen(a) ==
    IF a = <<>> THEN 0 ELSE (Len(a) - 1) * LimbBits + IntBitLen(a[Len(a)])

\* a * 2^n
BigShl(a, n) ==
    IF a = <<>> THEN <<>>
    ELSE [i \in 1..(n \div LimbBits) |-> 0] \o BigMulSmall(a, Pow2(n % LimbBits), 0)

\* bit n of a, counted from 0
BigBit(a, n) ==
    LET i == (n \div LimbBits) + 1
    IN  IF i > Len(a) THEN 0 ELSE (a[i] \div Pow2(n % LimbBits)) % 2

\* whether any of the n lowest bits of a is set
BigLowBitsSet(a, n) ==
    LET full == n \div LimbBits
    IN  \/ \E i \in 1..full : i <= Len(a) /\ a[i] # 0
        \/ /\ full + 1 <= Len(a)
           /\ (a[full + 1] % Pow2(n % LimbBits)) # 0

\* a without its lowest limb
BigDropLimb(a) == IF a = <<>> THEN <<>> ELSE BigNorm(SubSeq(a, 2, Len(a)))

\* the limbs of a from limb skip + 1 up
BigDropLimbs(a, skip) == IF skip >= Len(a) THEN <<>> ELSE SubSeq(a, skip + 1, Len(a))

\* floor(a / 2^n)
BigShr(a, n) ==
    BigDropLimb(BigMulSmall(BigDropLimbs(a, n \div LimbBits),
                            Pow2(LimbBits - (n % LimbBits)), 0))

\* a * 10^n (n is halved so that the evaluation stays shallow)
RECURSIVE BigMulPow10(_, _)
BigMulPow10(a, n) ==
    IF n <= 4 THEN BigMulSmall(a, Pow10(n), 0)
    ELSE LET half == BigMulPow10(a, n \div 2)
         IN  IF half = <<>> THEN <<>> ELSE BigMulPow10(half, n - (n \div 2))

\* floor(a / 10^n), and whether the division was inexact
RECURSIVE BigDivPow10(_, _)
BigDivPow10(a, n) ==
    IF n <= 4
    THEN LET res == BigDivSmall(a, Pow10(n))
         IN  [q |-> res.q, sticky |-> res.r # 0]
    ELSE LET first  == BigDivPow10(a, n \div 2)
             second == BigDivPow10(first.q, n - (n \div 2))
         IN  IF first.sticky THEN [q |-> second.q, sticky |-> TRUE] ELSE second

\* ------------------------------------------------------------------------
\* f64: IEEE 754 binary64
\* ------------------------------------------------------------------------

FracBits == 52
HalfBits == 26
ExpBias == 1023
ExpMax == 2047
\* exponent of the least significant bit of a subnormal: 2^-1074
MinExp2 == -1074

F64(neg, exp, hi, lo) == [neg |-> neg, exp |-> exp, hi |-> hi, lo |-> lo]

F64Zero(neg) == F64(neg, 0, 0, 0)
F64Inf(neg) == F64(neg, ExpMax, 0, 0)
F64NaN == F64(FALSE, ExpMax, Pow2(HalfBits - 1), 0)

F64IsNaN(x) == x.exp = ExpMax /\ (x.hi # 0 \/ x.lo # 0)
F64IsInf(x) == x.exp = ExpMax /\ x.hi = 0 /\ x.lo = 0
F64IsZero(x) == x.exp = 0 /\ x.hi = 0 /\ x.lo = 0

\* the significand of a finite x as a natural number, and the exponent of its
\* least significant bit: |x| = F64Sig(x) * 2^F64Exp2(x)
F64Sig(x) ==
    BigNorm(<<x.lo % Base, x.lo \div Base, x.hi % Base, x.hi \div Base,
              IF x.exp > 0 THEN 1 ELSE 0>>)

F64Exp2(x) == (IF x.exp > 0 THEN x.exp ELSE 1) - ExpBias - FracBits

BigLimb(a, i) == IF i <= Len(a) THEN a[i] ELSE 0

\* the f64 of sign neg, biased exponent bexp and the low 52 bits of m
\* (infinity when the exponent is out of range)
Pack(neg, bexp, m) ==
    IF bexp >= ExpMax THEN F64Inf(neg)
    ELSE F64(neg, bexp, BigLimb(m, 3) + BigLimb(m, 4) * Base,
                        BigLimb(m, 1) + BigLimb(m, 2) * Base)

\* m is the rounded significand, of mlen bits, of a number whose leading bit
\* had exponent e before rounding: a carry out of the rounding moves the
\* exponent up by one (a subnormal that rounds up to 2^52 becomes normal)
PackRounded(neg, e, m, mlen) ==
    IF e < 1 - ExpBias
    THEN Pack(neg, IF mlen = FracBits + 1 THEN 1 ELSE 0, m)
    ELSE IF mlen = FracBits + 2 THEN Pack(neg, e + ExpBias + 1, <<>>)
    ELSE Pack(neg, e + ExpBias, m)

\* round to nearest, ties to even: m0 is the kept part, rbit the first bit
\* dropped and st whether anything lies below that bit
RoundTiesEven(m0, rbit, st) ==
    IF rbit = 1 /\ (st \/ BigBit(m0, 0) = 1) THEN BigMulSmall(m0, 1, 1) ELSE m0

RoundDropped(neg, e, m) == PackRounded(neg, e, m, BigBitLen(m))

\* drop the `drop` lowest bits of q (none when drop <= 0: q is shifted up)
RoundDrop(neg, q, sticky, e, drop) ==
    IF drop <= 0 THEN RoundDropped(neg, e, BigShl(q, -drop))
    ELSE RoundDropped(neg, e,
             RoundTiesEven(BigShr(q, drop), BigBit(q, drop - 1),
                           sticky \/ BigLowBitsSet(q, drop - 1)))

\* q has len bits, its leading bit the exponent e: a normal number keeps 53
\* bits, a subnormal one those down to 2^-1074
RoundLen(neg, q, sticky, e2, len) ==
    RoundDrop(neg, q, sticky, len - 1 + e2,
              IF len - 1 + e2 < 1 - ExpBias THEN MinExp2 - e2
              ELSE len - (FracBits + 1))

\* the f64 nearest to (q + f) * 2^e2, ties to even, where q > 0 is a natural
\* number and 0 <= f < 1 is a fraction known only to be zero or not (sticky)
RoundPack(neg, q, sticky, e2) == RoundLen(neg, q, sticky, e2, BigBitLen(q))

\* the f64 nearest to (quot.q + f) / 2^k
RoundQuotient(neg, quot, k) == RoundPack(neg, quot.q, quot.sticky, -k)

\* the f64 nearest to w * 10^q (w a natural number): what a correctly rounding
\* decimal parser returns, overflow giving infinity and underflow zero
DecToF64(neg, w, q) ==
    IF w = <<>> THEN F64Zero(neg)
    ELSE IF q >= 309 THEN F64Inf(neg)
    ELSE IF -q > 324 + BigBitLen(w) THEN F64Zero(neg)
    ELSE IF q >= 0 THEN RoundPack(neg, BigMulPow10(w, q), FALSE, 0)
    ELSE RoundQuotient(neg, BigDivPow10(BigShl(w, 64 + 4 * (-q)), -q),
                       64 + 4 * (-q))

\* a * b
F64Mul(a, b) ==
    LET neg == a.neg # b.neg
    IN  IF F64IsNaN(a) \/ F64IsNaN(b) THEN F64NaN
        ELSE IF F64IsInf(a) \/ F64IsInf(b)
             THEN IF F64IsZero(a) \/ F64IsZero(b) THEN F64NaN ELSE F64Inf(neg)
        ELSE IF F64IsZero(a) \/ F64IsZero(b) THEN F64Zero(neg)
        ELSE RoundPack(neg, BigMul(F64Sig(a), F64Sig(b)), FALSE,
                       F64Exp2(a) + F64Exp2(b))

\* a == b
F64Eq(a, b) ==
    /\ ~F64IsNaN(a)
    /\ ~F64IsNaN(b)
    /\ \/ a = b
       \/ F64IsZero(a) /\ F64IsZero(b)

\* |a| < |b| for a and b that are not NaN
F64MagLess(a, b) ==
    \/ a.exp < b.exp
    \/ a.exp = b.exp /\ a.hi < b.hi
    \/ a.exp = b.exp /\ a.hi = b.hi /\ a.lo < b.lo

\* a.partial_cmp(&b)
F64PartialCmp(a, b) ==
    IF F64IsNaN(a) \/ F64IsNaN(b) THEN "None"
    ELSE IF F64Eq(a, b) THEN "Equal"
    ELSE IF a.neg # b.neg THEN (IF a.neg THEN "Less" ELSE "Greater")
    ELSE IF F64MagLess(a, b) # a.neg THEN "Less"
    ELSE "Greater"

\* ------------------------------------------------------------------------
\* str::parse::<f64>
\*   Number ::= [sign] ( Digit+ | Digit+ '.' Digit* | Digit* '.' Digit+ ) [Exp]
\*   Exp    ::= ('e' | 'E') [sign] Digit+
\* ("inf", "infinity" and "nan" are accepted too; no buffer of the lexer
\* holds their letters)
\* ------------------------------------------------------------------------

\* the first index from i on at which str holds no digit
RECURSIVE DigitRunEnd(_, _)
DigitRunEnd(str, i) ==
    IF i <= Len(str) /\ str[i] \in Digits THEN DigitRunEnd(str, i + 1) ELSE i

\* the natural number written by acc followed by the digits str[i..j-1]
\* (the range is halved so that the evaluation stays shallow)
RECURSIVE DigitsToBig(_, _, _, _)
DigitsToBig(str, i, j, acc) ==
    IF i >= j THEN acc
    ELSE IF i + 1 = j THEN BigMulSmall(acc, 10, DigitVal(str[i]))
    ELSE LET mid   == (i + j) \div 2
             first == DigitsToBig(str, i, mid, acc)
         IN  IF first = <<>> THEN DigitsToBig(str, mid, j, <<>>)
             ELSE DigitsToBig(str, mid, j, first)

\* the exponent written by the digits str[i..j-1]; digits after the number
\* has reached 65536 are dropped
RECURSIVE ParseScientific(_, _, _, _)
ParseScientific(str, i, j, acc) ==
    IF i >= j THEN acc
    ELSE ParseScientific(str, i + 1, j,
                         IF acc < 65536 THEN 10 * acc + DigitVal(str[i]) ELSE acc)

ParseErr == [ok |-> FALSE]
ParseOk(val) == [ok |-> TRUE, val |-> val]

\* the digits of the mantissa: those of str[i0..intEnd-1] and str[fracStart..fracEnd-1]
MantissaDigits(str, i0, intEnd, fracStart, fracEnd) ==
    DigitsToBig(str, fracStart, fracEnd, DigitsToBig(str, i0, intEnd, <<>>))

\* a parse that takes an exponent with no digit for the exponent 0
ParseExpDigitsLenient(str, neg, w, nFrac, expNeg, expStart, expEnd) ==
    IF expEnd # Len(str) + 1 THEN ParseErr
    ELSE IF expNeg
    THEN ParseOk(DecToF64(neg, w, -ParseScientific(str, expStart, expEnd, 0) - nFrac))
    ELSE ParseOk(DecToF64(neg, w, ParseScientific(str, expStart, expEnd, 0) - nFrac))

\* the exponent digits str[expStart..expEnd-1] must be there and end the string
ParseExpDigits(str, neg, w, nFrac, expNeg, expStart, expEnd) ==
    IF expEnd = expStart \/ expEnd # Len(str) + 1 THEN ParseErr
    ELSE IF expNeg
    THEN ParseOk(DecToF64(neg, w, -ParseScientific(str, expStart, expEnd, 0) - nFrac))
    ELSE ParseOk(DecToF64(neg, w, ParseScientific(str, expStart, expEnd, 0) - nFrac))

\* str[at] is 'e' or 'E': an optional sign and the exponent digits
ParseExponent(str, neg, w, nFrac, at) ==
    IF at + 1 <= Len(str) /\ str[at + 1] \in {"+", "-"}
    THEN ParseExpDigits(str, neg, w, nFrac, str[at + 1] = "-", at + 2,
                        DigitRunEnd(str, at + 2))
    ELSE ParseExpDigits(str, neg, w, nFrac, FALSE, at + 1, DigitRunEnd(str, at + 1))

\* the mantissa is str[i0..intEnd-1] and str[fracStart..fracEnd-1]: it needs
\* a digit, and only an exponent may follow it
ParseAfterMantissa(str, neg, i0, intEnd, fracStart, fracEnd) ==
    IF (intEnd - i0) + (fracEnd - fracStart) = 0 THEN ParseErr
    ELSE IF fracEnd = Len(str) + 1
    THEN ParseOk(DecToF64(neg, MantissaDigits(str, i0, intEnd, fracStart, fracEnd),
                          -(fracEnd - fracStart)))
    ELSE IF str[fracEnd] \in {"e", "E"}
    THEN ParseExponent(str, neg, MantissaDigits(str, i0, intEnd, fracStart, fracEnd),
                       fracEnd - fracStart, fracEnd)
    ELSE ParseErr

\* the integer digits end before intEnd: a '.' there starts the fraction
ParseFraction(str, neg, i0, intEnd) ==
    IF intEnd <= Len(str) /\ str[intEnd] = "."
    THEN ParseAfterMantissa(str, neg, i0, intEnd, intEnd + 1, DigitRunEnd(str, intEnd + 1))
    ELSE ParseAfterMantissa(str, neg, i0, intEnd, intEnd, intEnd)

\* the number starts at i0, after the sign if there is one
ParseNumber(str, neg, i0) ==
    IF i0 > Len(str) THEN ParseErr
    ELSE ParseFraction(str, neg, i0, DigitRunEnd(str, i0))

ParseF64(str) ==
    IF Len(str) = 0 THEN ParseErr
    ELSE ParseNumber(str, str[1] = "-", IF str[1] \in {"+", "-"} THEN 2 ELSE 1)

\* ------------------------------------------------------------------------
\* Number, ParseNumberError and the result of from_str
\* ------------------------------------------------------------------------

\* the f64 literals of the source
Lit1e(k) == DecToF64(FALSE, <<1>>, k)

\* let mut mult = 1.0
One == Lit1e(0)
Tera == Lit1e(12)
Giga == Lit1e(9)
Mega == Lit1e(6)
Kilo == Lit1e(3)
Milli == Lit1e(-3)
Micro == Lit1e(-6)
Nano == Lit1e(-9)
Pico == Lit1e(-12)
Femto == Lit1e(-15)

Number(value, raw) == [value |-> value, raw |-> raw]

\* the equality #[derive(PartialEq)] would give: every field
NumberEqDerived(a, b) == a = b

\* impl PartialEq for Number
NumberEq(a, b) == F64Eq(a.value, b.value)

\* impl PartialOrd for Number
NumberPartialCmp(a, b) == F64PartialCmp(a.value, b.value)

\* Ok(Self{ value, raw: s.into() })
Ok(value, raw) == [tag |-> "Ok", value |-> value, raw |-> raw]

\* Err(ParseNumberError{kind})
Err(kind) == [tag |-> "Err", kind |-> kind]

\* NumberErrorKind
ErrorKinds == {"Empty", "Invalid", "InvalidMult"}

\* ------------------------------------------------------------------------
\* The arms of the match on the lexer state.  Each gives what one loop
\* iteration does with the character ch it has read:
\*   cont : push ch on the buffer and go on in state next
\*   brk  : break 'parse with the multiplier mult, after taking `take` more
\*          characters from the iterator
\*   err  : return Err(kind)
\* ------------------------------------------------------------------------

\* a push that folds the buffer to upper case
ContFolded(buf, next) == [tag |-> "cont", buf |-> StrToAsciiUppercase(buf), next |-> next]

Cont(buf, next) == [tag |-> "cont", buf |-> buf, next |-> next]
Brk(m, take) == [tag |-> "brk", mult |-> m, take |-> take]
Fail(kind) == [tag |-> "err", kind |-> kind]

\* NumParseState
States == {"Start", "Int", "Float", "ExpStart", "Exp"}

\* a Start arm that takes a letter for a multiplier it does not know
StartArmLetters(ch, st, buf) ==
    IF ch \in {"+", "-"} \cup Digits
    THEN Cont(Append(buf, ch), IF st = "Start" THEN "Int" ELSE "Exp")
    ELSE IF IsAsciiAlphabetic(ch) THEN Fail("InvalidMult")
    ELSE Fail("Invalid")

\* an ExpStart arm that skips what is no sign and no digit
StartArmSkip(ch, st, buf) ==
    IF ch \in {"+", "-"} \cup Digits
    THEN Cont(Append(buf, ch), IF st = "Start" THEN "Int" ELSE "Exp")
    ELSE IF st = "ExpStart" THEN Cont(buf, st)
    ELSE Fail("Invalid")

\* NumParseState::Start | NumParseState::ExpStart => match c
StartArm(ch, st, buf) ==
    IF ch \in {"+", "-"} \cup Digits
    THEN Cont(Append(buf, ch), IF st = "Start" THEN "Int" ELSE "Exp")
    ELSE Fail("Invalid")

\* a lookahead of three characters
Take3(rest) == SubSeq(rest, 1, IF Len(rest) < 3 THEN Len(rest) ELSE 3)

\* raw.take(2).collect::<String>(): the next (at most two) characters
Take2(rest) == SubSeq(rest, 1, IF Len(rest) < 2 THEN Len(rest) ELSE 2)

\* a lookahead that compares without folding the case
MilliOrMegaCaseSensitive(rest) ==
    IF Take2(rest) = <<"E", "G">> THEN Mega ELSE Milli

\* 'M': Milli (m) or Mega (Meg)
MilliOrMega(rest) ==
    IF StrToAsciiUppercase(Take2(rest)) = <<"E", "G">> THEN Mega ELSE Milli

\* a table with the multipliers of U and N swapped
MatchUpperSwapped(up, rest) ==
    CASE up = "T" -> Brk(Tera, 0)
      [] up = "G" -> Brk(Giga, 0)
      [] up = "X" -> Brk(Mega, 0)
      [] up = "K" -> Brk(Kilo, 0)
      [] up = "M" -> Brk(MilliOrMega(rest), Len(Take2(rest)))
      [] up = "U" -> Brk(Nano, 0)
      [] up = "N" -> Brk(Micro, 0)
      [] up = "P" -> Brk(Pico, 0)
      [] up = "F" -> Brk(Femto, 0)
      [] OTHER -> Fail("InvalidMult")

\* match c.to_ascii_uppercase(): the unit multiplier of the letter whose
\* upper case is up, the iterator standing before rest
MatchUpper(up, rest) ==
    CASE up = "T" -> Brk(Tera, 0)
      [] up = "G" -> Brk(Giga, 0)
      [] up = "X" -> Brk(Mega, 0)
      [] up = "K" -> Brk(Kilo, 0)
      [] up = "M" -> Brk(MilliOrMega(rest), Len(Take2(rest)))
      [] up = "U" -> Brk(Micro, 0)
      [] up = "N" -> Brk(Nano, 0)
      [] up = "P" -> Brk(Pico, 0)
      [] up = "F" -> Brk(Femto, 0)
      [] OTHER -> Fail("InvalidMult")

\* an unknown letter taken for no multiplier
UnitMultiplierLenient(ch, rest) ==
    IF MatchUpper(ToAsciiUppercase(ch), rest).tag = "err"
    THEN Brk(One, 0)
    ELSE MatchUpper(ToAsciiUppercase(ch), rest)

\* _ if c.is_ascii_alphabetic(): unit multiplier
UnitMultiplier(ch, rest) == MatchUpper(ToAsciiUppercase(ch), rest)

\* a point refused once the buffer holds one
DotArmStrict(ch, st, buf) ==
    IF st = "Int" /\ \A i \in 1..Len(buf) : buf[i] # "."
    THEN Cont(Append(buf, ch), "Float")
    ELSE Fail("Invalid")

\* a point that is dropped from the buffer
DotArmDropped(ch, st, buf) ==
    IF st = "Int" THEN Cont(buf, "Float") ELSE Fail("Invalid")

\* '.' => match state
DotArm(ch, st, buf) ==
    IF st = "Int" THEN Cont(Append(buf, ch), "Float") ELSE Fail("Invalid")

\* an Int arm that ends the scan at a character it does not know
IntArmBreak(ch, st, buf, rest) ==
    IF ch \in Digits THEN Cont(Append(buf, ch), "Int")
    ELSE IF ch = "." THEN DotArm(ch, st, buf)
    ELSE IF ch \in {"e", "E"} THEN Cont(Append(buf, ch), "ExpStart")
    ELSE IF IsAsciiAlphabetic(ch) THEN UnitMultiplier(ch, rest)
    ELSE Brk(One, 0)

\* an Int arm where a digit leaves the state as it is
IntArmKeepState(ch, st, buf, rest) ==
    IF ch \in Digits THEN Cont(Append(buf, ch), st)
    ELSE IF ch = "." THEN DotArm(ch, st, buf)
    ELSE IF ch \in {"e", "E"} THEN Cont(Append(buf, ch), "ExpStart")
    ELSE IF IsAsciiAlphabetic(ch) THEN UnitMultiplier(ch, rest)
    ELSE Fail("Invalid")

\* NumParseState::Int | NumParseState::Float => match c
IntArm(ch, st, buf, rest) ==
    IF ch \in Digits THEN Cont(Append(buf, ch), "Int")
    ELSE IF ch = "." THEN DotArm(ch, st, buf)
    ELSE IF ch \in {"e", "E"} THEN Cont(Append(buf, ch), "ExpStart")
    ELSE IF IsAsciiAlphabetic(ch) THEN UnitMultiplier(ch, rest)
    ELSE Fail("Invalid")

\* an Exp arm that resolves a unit letter as the Int arm does
ExpArmWithSuffix(ch, buf) ==
    IF ch \in Digits THEN Cont(Append(buf, ch), "Exp")
    ELSE IF IsAsciiAlphabetic(ch) THEN UnitMultiplier(ch, <<>>)
    ELSE Brk(One, 0)

\* NumParseState::Exp => match c
ExpArm(ch, buf) ==
    IF ch \in Digits THEN Cont(Append(buf, ch), "Exp") ELSE Brk(One, 0)

\* an end of input that goes on with the loop
EndArmContinue(buf) == IF Len(buf) > 0 THEN Cont(buf, "Int") ELSE Fail("Empty")

\* an end of input that takes a buffer of one character for an empty one
EndArmOffByOne(buf) == IF Len(buf) > 1 THEN Brk(One, 0) ELSE Fail("Empty")

\* raw.next() returned None: break if the buffer holds something
EndArm(buf) == IF Len(buf) > 0 THEN Brk(One, 0) ELSE Fail("Empty")

\* a from_str that takes the default value for a buffer that fails to parse
FinishParsedOrDefault(parsed, m, input) ==
    IF parsed.ok THEN Ok(F64Mul(parsed.val, m), input) ELSE Ok(F64Zero(FALSE), input)

\* match value_str.parse::<f64>() { Ok(v) => v * mult, Err(_) => return Err(..) }
\* and Ok(Self{ value, raw: s.into() })
FinishParsed(parsed, m, input) ==
    IF parsed.ok THEN Ok(F64Mul(parsed.val, m), input) ELSE Err("Invalid")

\* a from_str that returns the buffer as raw
FinishRawIsBuffer(buf, m, input) == FinishParsed(ParseF64(buf), m, buf)

\* the end of from_str, after the loop
Finish(buf, m, input) == FinishParsed(ParseF64(buf), m, input)

\* the arm that the iteration after n characters of str takes
ScanArm(str, n, st, buf) ==
    IF n = Len(str) THEN EndArm(buf)
    ELSE IF st \in {"Start", "ExpStart"} THEN StartArm(str[n + 1], st, buf)
    ELSE IF st \in {"Int", "Float"}
    THEN IntArm(str[n + 1], st, buf, SubSeq(str, n + 2, Len(str)))
    ELSE ExpArm(str[n + 1], buf)

\* from_str as a function: the loop from the iteration after n characters,
\* in state st with buffer buf, and what follows the loop
RECURSIVE Scan(_, _, _, _)
ScanAfter(arm, str, n, buf) ==
    IF arm.tag = "cont"
    THEN Scan(str, IF n = Len(str) THEN n ELSE n + 1, arm.next, arm.buf)
    ELSE IF arm.tag = "brk" THEN Finish(buf, arm.mult, str)
    ELSE Err(arm.kind)

Scan(str, n, st, buf) == ScanAfter(ScanArm(str, n, st, buf), str, n, buf)

\* Number::from_str(str)
FromStr(str) == Scan(str, 0, "Start", <<>>)

\* ------------------------------------------------------------------------
\* Inputs
\* ------------------------------------------------------------------------

\* longest input of the exhaustive part
MaxLen == 4

Alphabet == {"-", "0", "1", ".", "e", "m", "G", "K", "W", " "}

AllStrings == UNION {[1..n -> Alphabet] : n \in 0..MaxLen}

\* the inputs of the tests of the source
TestInputs ==
    {<<"7", "3", "4", "3">>,
     <<"+", "1", "2", "3">>,
     <<"-", "4", "5", "3">>,
     <<"1", ".", "2", "3">>,
     <<"+", "8", "7", "3", "4", "3", ".", "5", "4">>,
     <<"-", "8", "4", "8", "4", ".", "0", "0", "9", "2", "7">>,
     <<"+", "4", "7", "3", "e", "3">>,
     <<"-", "2", "3", "4", "E", "+", "7">>,
     <<"3", "4", "e", "+", "0", "0", "0", "7">>,
     <<"4", "E", "-", "2">>,
     <<"-", "4", "E", "-", "0", "8">>,
     <<"+", "4", ".", "7", "3", "e", "3">>,
     <<"-", "2", "3", ".", "4", "E", "+", "7">>,
     <<"1", "0", ".", "3", "4", "E", "+", "4">>,
     <<"+", "1", "2", "3", "t">>,
     <<"-", "4", "5", "3", "X">>,
     <<"7", "3", "4", "3", "M", "e", "g">>,
     <<"1", ".", "2", "3", "M", "e", "g">>,
     <<"+", "8", "7", "3", "4", "3", ".", "5", "4", "K">>,
     <<"-", "8", "4", "8", "4", ".", "0", "0", "9", "2", "3", "m">>,
     <<"1", ".", "2", "3", "p", "F", "a", "r", "a", "d">>,
     <<"1", "2", "3", "e", "3", "F">>,
     <<>>,
     <<"1", ".", "2", ".", "3">>,
     <<"3", "-", "4">>,
     <<"3", "+", "4">>,
     <<"p", "o", "t", "a", "t", "o">>,
     <<"+", "-", "4", "7", "4", ".", "0">>,
     <<"4", "7", "4", ".", "0", "W">>}

\* further spellings: zeros, overflow and underflow, ill-formed exponents and
\* points, and different spellings of one value
MoreInputs ==
    {<<"1", ".", "2", ".", "3", "W">>,
     <<"1", ".", "2", ".", "3", "K">>,
     <<"0">>,
     <<"-", "0">>,
     <<"+", "0", ".", "0">>,
     <<"1", "e", "9", "9", "9">>,
     <<"-", "1", "e", "9", "9", "9">>,
     <<"1", "e", "-", "9", "9", "9">>,
     <<"1", "e", "3", "0", "9">>,
     <<"5", "e", "-", "3", "2", "4">>,
     <<"2", "e", "-", "3", "2", "4">>,
     <<"9", "0", "0", "7", "1", "9", "9", "2", "5", "4", "7", "4", "0", "9", "9", "3">>,
     <<"0", ".", "1", "e", "1">>,
     <<"1", "e", "+">>,
     <<"1", "e", "-">>,
     <<"1", "e">>,
     <<"+", "e", "5">>,
     <<"1", "e", "5", "e", "3">>,
     <<"1", "e", "5", ".", "5">>,
     <<"1", "e", "+", "5", "-">>,
     <<"1", ".", ".", "5">>,
     <<"1", ".", "e", "5">>,
     <<"+", ".", "5">>,
     <<"+", ".">>,
     <<"5", ".">>,
     <<"1", "E", "3">>,
     <<"1", "0", "0", "0">>,
     <<"1", "k">>,
     <<"1", "e", "3", "K">>,
     <<"1", "0", "0", "0", "0", "0", "0", "u">>,
     <<"5", "m">>,
     <<"5", "e", "-", "3">>,
     <<"0", ".", "0", "0", "5">>,
     <<"3", "u">>,
     <<"3", "e", "-", "6">>,
     <<"1", ".", "5", "X">>,
     <<"1", "5", "0", "0", "0", "0", "0">>}

\* every letter after a body
SuffixBodies == {<<"1", "2">>, <<"-", "1", ".", "5">>, <<"0", ".", "1">>, <<"2", "e", "3">>}
SuffixInputs == {b \o <<l>> : b \in SuffixBodies, l \in UpperLetters \cup LowerLetters}

\* M and m followed by up to MaxTail characters
MaxTail == 3
TailChars == {"e", "E", "g", "G", "x"}
MegInputs ==
    {<<"2", l>> \o tail : l \in {"M", "m"},
                          tail \in UNION {[1..n -> TailChars] : n \in 0..MaxTail}}

Inputs == AllStrings \cup TestInputs \cup MoreInputs \cup SuffixInputs \cup MegInputs

\* the inputs whose results the caller compares with one another
CmpInputs ==
    {<<"1", "K">>, <<"1", "e", "3">>, <<"1", "E", "3">>, <<"1", "0", "0", "0">>,
     <<"+", "1", "0", "0", "0", ".", "0">>, <<"1", "k", "g">>,
     <<"0">>, <<"-", "0">>, <<"+", "0", ".", "0">>, <<"0", "e", "5">>,
     <<"5", "m">>, <<"5", "e", "-", "3">>, <<"0", ".", "0", "0", "5">>,
     <<"-", "1">>, <<"-", "1", ".", "0">>, <<"1", "e", "9", "9", "9">>,
     <<"-", "1", "e", "9", "9", "9">>, <<"2", "e", "9", "9", "9">>}

\* ------------------------------------------------------------------------
\* State
\* ------------------------------------------------------------------------

VARIABLES
    s,          \* the argument of from_str
    pos,        \* how many characters the iterator raw has given out
    c,          \* the character of the current loop iteration
    state,      \* the lexer state
    value_str,  \* the numeric buffer
    mult,       \* the multiplier
    pc,         \* "loop": at the head of 'parse; "parse": after the loop;
                \* "done": from_str has returned; "compared": the caller has
                \* compared two results
    result,     \* what from_str returned
    iters,      \* loop iterations begun in this call
    held,       \* the Number of an earlier call, kept by the caller
    cmp         \* the outcome of held == result and held.partial_cmp(result)

vars == <<s, pos, c, state, value_str, mult, pc, result, iters, held, cmp>>

NoChar == ""
Pending == [tag |-> "Pending"]
NoNumber == [some |-> FALSE]
NoCmp == [done |-> FALSE]

\* the locals of from_str as a call on input starts
Enter(input) ==
    /\ s = input
    /\ pos = 0
    /\ c = NoChar
    /\ state = "Start"
    /\ value_str = <<>>
    /\ mult = One
    /\ pc = "loop"
    /\ result = Pending
    /\ iters = 0

Init ==
    /\ \E input \in Inputs : Enter(input)
    /\ held = NoNumber
    /\ cmp = NoCmp

\* the characters the iterator has not given out yet
Rest(n) == SubSeq(s, n + 1, Len(s))

\* what a loop iteration leaves, given what its arm decided and how many
\* characters the iteration itself read
Apply(arm, read) ==
    /\ iters' = iters + 1
    /\ CASE arm.tag = "cont" ->
              /\ value_str' = arm.buf
              /\ state' = arm.next
              /\ pos' = pos + read
              /\ UNCHANGED <<mult, pc, result>>
         [] arm.tag = "brk" ->
              /\ mult' = arm.mult
              /\ pos' = pos + read + arm.take
              /\ pc' = "parse"
              /\ UNCHANGED <<value_str, state, result>>
         [] arm.tag = "err" ->
              /\ result' = Err(arm.kind)
              /\ pos' = pos + read
              /\ pc' = "done"
              /\ UNCHANGED <<value_str, state, mult>>
    /\ UNCHANGED <<s, held, cmp>>

\* raw.next() is None
EndOfInput ==
    /\ pc = "loop"
    /\ pos = Len(s)
    /\ Apply(EndArm(value_str), 0)
    /\ UNCHANGED c

\* an iteration in Start or ExpStart
StepStart ==
    /\ pc = "loop"
    /\ pos < Len(s)
    /\ state \in {"Start", "ExpStart"}
    /\ c' = s[pos + 1]
    /\ Apply(StartArm(s[pos + 1], state, value_str), 1)

\* an iteration in Int or Float
StepInt ==
    /\ pc = "loop"
    /\ pos < Len(s)
    /\ state \in {"Int", "Float"}
    /\ c' = s[pos + 1]
    /\ Apply(IntArm(s[pos + 1], state, value_str, Rest(pos + 1)), 1)

\* an iteration in Exp
StepExp ==
    /\ pc = "loop"
    /\ pos < Len(s)
    /\ state = "Exp"
    /\ c' = s[pos + 1]
    /\ Apply(ExpArm(s[pos + 1], value_str), 1)

\* after the loop: parse the buffer and return
ParseValue ==
    /\ pc = "parse"
    /\ result' = Finish(value_str, mult, s)
    /\ pc' = "done"
    /\ UNCHANGED <<s, pos, c, state, value_str, mult, iters, held, cmp>>

\* the caller keeps the Number it got and calls from_str on another input
CallAgain ==
    /\ pc = "done"
    /\ result.tag = "Ok"
    /\ ~held.some
    /\ s \in CmpInputs
    /\ held' = [some |-> TRUE, num |-> Number(result.value, result.raw)]
    /\ \E input \in CmpInputs :
          /\ s' = input
          /\ pos' = 0
          /\ c' = NoChar
          /\ state' = "Start"
          /\ value_str' = <<>>
          /\ mult' = One
          /\ pc' = "loop"
          /\ result' = Pending
          /\ iters' = 0
    /\ UNCHANGED cmp

\* the caller compares the Number it kept with the one it got now
Compare ==
    /\ pc = "done"
    /\ result.tag = "Ok"
    /\ held.some
    /\ cmp' = [done |-> TRUE,
               eq   |-> NumberEq(held.num, Number(result.value, result.raw)),
               ord  |-> NumberPartialCmp(held.num, Number(result.value, result.raw))]
    /\ pc' = "compared"
    /\ UNCHANGED <<s, pos, c, state, value_str, mult, result, iters, held>>

Next ==
    \/ EndOfInput
    \/ StepStart
    \/ StepInt
    \/ StepExp
    \/ ParseValue
    \/ CallAgain
    \/ Compare

Spec == Init /\ [][Next]_vars


TypeOK ==
    /\ pos \in 0..Len(s)
    /\ state \in States
    /\ pc \in {"loop", "parse", "done", "compared"}
    /\ result.tag \in {"Pending", "Ok", "Err"}
    /\ result.tag = "Err" => result.kind \in ErrorKinds
    /\ (result.tag = "Pending") = (pc \in {"loop", "parse"})

\* ------------------------------------------------------------------------
\* Properties
\* ------------------------------------------------------------------------

Signs == {"+", "-"}
ExpMarkers == {"e", "E"}

\* the letters with a multiplier of their own, M apart
SingleLetters == {"T", "G", "X", "K", "U", "N", "P", "F",
                  "t", "g", "x", "k", "u", "n", "p", "f"}

\* where the mantissa  [sign] Digit+ [ '.' Digit+ ]  at the head of b ends
\* (the index after it), 0 if b does not start with one
MantissaEnd(b) ==
    LET first  == IF Len(b) > 0 /\ b[1] \in Signs THEN 2 ELSE 1
        intEnd == DigitRunEnd(b, first)
    IN  IF intEnd = first THEN 0
        ELSE IF intEnd <= Len(b) /\ b[intEnd] = "." /\ DigitRunEnd(b, intEnd + 1) > intEnd + 1
             THEN DigitRunEnd(b, intEnd + 1)
        ELSE intEnd

\* a signed integer or decimal: [sign] Digit+ [ '.' Digit+ ]
IsPlainNumber(b) == MantissaEnd(b) = Len(b) + 1

\* a plain number with an exponent: ... ('e' | 'E') [sign] Digit+
IsExpNumber(b) ==
    LET m  == MantissaEnd(b)
        es == IF m + 1 <= Len(b) /\ b[m + 1] \in Signs THEN m + 2 ELSE m + 1
    IN  /\ m # 0
        /\ m <= Len(b)
        /\ b[m] \in ExpMarkers
        /\ es <= Len(b)
        /\ DigitRunEnd(b, es) = Len(b) + 1

\* a valid numeric body
IsValidBody(b) == IsPlainNumber(b) \/ IsExpNumber(b)

\* a body without exponent that the lexer takes whole and f64 parsing accepts:
\* a sign or digit, then digits and points
IsMantissaBody(b) ==
    /\ Len(b) > 0
    /\ b[1] \in Signs \cup Digits
    /\ \A i \in 2..Len(b) : b[i] \in Digits \cup {"."}
    /\ ParseF64(b).ok

\* the multiplier the claim gives for a letter
MultiplierOf(l) ==
    LET up == ToAsciiUppercase(l)
    IN  CASE up = "T" -> Lit1e(12) [] up = "G" -> Lit1e(9) [] up = "X" -> Lit1e(6)
          [] up = "K" -> Lit1e(3) [] up = "U" -> Lit1e(-6) [] up = "N" -> Lit1e(-9)
          [] up = "P" -> Lit1e(-12) [] up = "F" -> Lit1e(-15)

Body(str) == SubSeq(str, 1, Len(str) - 1)
LastChar(str) == str[Len(str)]

\* C1: whenever from_str succeeds, raw is the whole input, character for
\* character, wherever the scan stopped.
C1_RawIsInput ==
    (pc = "done" /\ result.tag = "Ok") => result.raw = s

\* C1 witness: a success on "..M.." where the scan took the M and the two
\* characters of its lookahead and characters are still left after them.
C1_Witness ==
    /\ pc = "done"
    /\ result.tag = "Ok"
    /\ ToAsciiUppercase(c) = "M"
    /\ pos = Len(value_str) + 3
    /\ pos < Len(s)
    /\ result.raw = s

\* C2 as stated: for a single-letter suffix after any valid numeric body b,
\* from_str succeeds with parse(b) * multiplier[letter].
C2_Original ==
    (/\ pc = "done"
     /\ Len(s) > 0
     /\ LastChar(s) \in SingleLetters
     /\ IsValidBody(Body(s)))
    => /\ result.tag = "Ok"
       /\ result.value = F64Mul(ParseF64(Body(s)).val, MultiplierOf(LastChar(s)))

\* C2 amended: for a single-letter suffix after a valid numeric body b that
\* has no exponent part, from_str succeeds with parse(b) * multiplier[letter].
C2_SuffixScalesMantissa ==
    (/\ pc = "done"
     /\ Len(s) > 0
     /\ LastChar(s) \in SingleLetters
     /\ IsMantissaBody(Body(s)))
    => /\ result.tag = "Ok"
       /\ result.value = F64Mul(ParseF64(Body(s)).val, MultiplierOf(LastChar(s)))

\* C2 witness: a decimal body with a lower-case letter of a negative power.
C2_Witness ==
    /\ pc = "done"
    /\ s = <<"-", "1", ".", "5", "u">>
    /\ result.tag = "Ok"
    /\ result.value = F64Mul(ParseF64(<<"-", "1", ".", "5">>).val, Lit1e(-6))

\* whether the two characters after index k of str are "EG" in either case
IsMegAt(str, k) ==
    /\ Len(str) >= k + 2
    /\ ToAsciiUppercase(str[k + 1]) = "E"
    /\ ToAsciiUppercase(str[k + 2]) = "G"

\* the scan ended at an M or m met in Int or Float (it stands right after the
\* buffer)
EndedAtM == pc \in {"parse", "done"} /\ state \in {"Int", "Float"} /\ ToAsciiUppercase(c) = "M"

\* C3: at an M or m met in Int or Float the multiplier is 1e6 exactly when the
\* next two characters are "EG" in either case, and 1e-3 otherwise, also with
\* no or one character left; the lookahead gives no error (an error after it
\* is the buffer failing to parse).
C3_MegOrMilli ==
    EndedAtM =>
       /\ mult = IF IsMegAt(s, Len(value_str) + 1) THEN Lit1e(6) ELSE Lit1e(-3)
       /\ pc = "done" /\ result.tag = "Err" =>
              result.kind = "Invalid" /\ ~ParseF64(value_str).ok

\* C3 witness: one character, an E, is left after the M: milli.
C3_Witness ==
    /\ EndedAtM
    /\ pc = "done"
    /\ Len(s) = Len(value_str) + 2
    /\ ToAsciiUppercase(s[Len(s)]) = "E"
    /\ mult = Lit1e(-3)
    /\ result.tag = "Ok"

\* C4: in ExponentDigits a character that is no digit ends the scan with no
\* error from the lexer and no suffix resolution: the multiplier stays 1.0,
\* and the outcome is the parse of the buffer, unscaled, never
\* InvalidMultiplier.
C4_ExpStep ==
    (pc = "loop" /\ state = "Exp" /\ pos < Len(s) /\ s[pos + 1] \notin Digits)
    => (pc' = "parse" /\ mult' = One /\ value_str' = value_str /\ result' = Pending)

C4_ExpEnd ==
    (state = "Exp" /\ pc \in {"parse", "done"}) =>
       /\ mult = Lit1e(0)
       /\ pc = "done" =>
             result = IF ParseF64(value_str).ok
                      THEN Ok(ParseF64(value_str).val, s)
                      ELSE Err("Invalid")

C4_NoSuffixAfterExponent == []C4_ExpEnd /\ [][C4_ExpStep]_vars

\* C4 witness: a recognized unit letter met after exponent digits, the value
\* returned being the parse of the buffer.
C4_Witness ==
    /\ pc = "done"
    /\ state = "Exp"
    /\ c \in SingleLetters
    /\ result.tag = "Ok"
    /\ result.value = ParseF64(value_str).val

\* C5: from_str returns Empty exactly when the input has no character.
C5_EmptyIffNoChars ==
    pc = "done" => ((result.tag = "Err" /\ result.kind = "Empty") <=> Len(s) = 0)

\* C5 witness: the empty input, answered Empty.
C5_Witness ==
    pc = "done" /\ s = <<>> /\ result = Err("Empty")


\* the upper case of the letters with a multiplier
KnownUpper == {"T", "G", "X", "K", "M", "U", "N", "P", "F"}

\* a letter (of ASCII, as is_ascii_alphabetic has it) that is neither the
\* exponent marker nor a letter with a multiplier
IsUnknownLetter(ch) ==
    /\ ch \in UpperLetters \cup LowerLetters
    /\ ch \notin ExpMarkers
    /\ ToAsciiUppercase(ch) \notin KnownUpper

\* C6: whenever the scan, with no error before, meets in Int or Float a letter
\* that is neither e/E nor one of T,G,X,K,M,U,N,P,F in either case, from_str
\* returns InvalidMult.
C6_Step ==
    (/\ pc = "loop"
     /\ state \in {"Int", "Float"}
     /\ pos < Len(s)
     /\ IsUnknownLetter(s[pos + 1]))
    => (pc' = "done" /\ result' = Err("InvalidMult"))

C6_End ==
    (pc = "done" /\ state \in {"Int", "Float"} /\ pos > Len(value_str) /\ IsUnknownLetter(c))
    => result = Err("InvalidMult")

C6_UnknownLetter == []C6_End /\ [][C6_Step]_vars

\* C6 witness: an unknown letter met right after a point (Float), answered
\* InvalidMult.
C6_Witness ==
    /\ pc = "done"
    /\ state = "Float"
    /\ IsUnknownLetter(c)
    /\ s[pos] = c
    /\ result = Err("InvalidMult")

\* whether the buffer holds an exponent marker
HasExpMarker(buf) == \E i \in 1..Len(buf) : buf[i] \in ExpMarkers

\* the scan stopped at a character that may not follow the buffer: at the
\* start or right after the exponent marker anything but a sign or digit, in
\* the mantissa a point right after a point or a character that is no digit,
\* point or letter
RejectedChar ==
    /\ pos = Len(value_str) + 1
    /\ IF value_str = <<>> \/ value_str[Len(value_str)] \in ExpMarkers
       THEN c \notin Signs \cup Digits
       ELSE /\ ~HasExpMarker(value_str)
            /\ \/ c = "." /\ value_str[Len(value_str)] = "."
               \/ c \notin Digits \cup {"."} \cup UpperLetters \cup LowerLetters

\* the numeric body of the input, the buffer the scan collected, is
\* malformed: a character was rejected, or the buffer is no float literal
BodyMalformed == RejectedChar \/ ~ParseF64(value_str).ok

\* the scan stopped in the mantissa at an unknown letter
StoppedAtUnknownLetter ==
    /\ pos = Len(value_str) + 1
    /\ value_str # <<>>
    /\ ~HasExpMarker(value_str)
    /\ IsUnknownLetter(c)

\* C7 as stated: every non-empty input whose numeric body is malformed is
\* rejected with Invalid.
C7_Original ==
    (pc = "done" /\ Len(s) > 0 /\ BodyMalformed) => result = Err("Invalid")

\* C7 amended: every non-empty input whose numeric body is malformed is
\* rejected, with Invalid unless the scan stopped in the mantissa at an
\* unknown letter, and then with InvalidMult.
C7_MalformedRejected ==
    (pc = "done" /\ Len(s) > 0 /\ BodyMalformed)
    => result = Err(IF StoppedAtUnknownLetter THEN "InvalidMult" ELSE "Invalid")

\* C7 witness: a buffer with two points apart that passed the lexer, stopped
\* by a letter with a multiplier, and failed to parse.
C7_Witness ==
    /\ pc = "done"
    /\ value_str = <<"1", ".", "2", ".", "3">>
    /\ c \in SingleLetters
    /\ result = Err("Invalid")

\* C8: for a signed integer or decimal with no suffix, from_str succeeds, the
\* value is the float parse of the input and raw is the input.
C8_PlainNumber ==
    (pc = "done" /\ IsPlainNumber(s)) => result = Ok(ParseF64(s).val, s)

\* C8 witness: a signed decimal that is not zero.
C8_Witness ==
    /\ pc = "done"
    /\ IsPlainNumber(s)
    /\ s[1] \in Signs
    /\ \E i \in 1..Len(s) : s[i] = "."
    /\ result = Ok(ParseF64(s).val, s)
    /\ ~F64IsZero(result.value)

\* one iteration of the loop of from_str
LoopStep == EndOfInput \/ StepStart \/ StepInt \/ StepExp

\* C9: a call ends: the loop is never stuck, every iteration reads the next
\* character, from left to right, and there are at most Len(s) + 1
\* iterations, followed by the one step that parses and returns; the call
\* returns one of the four outcomes, an error carrying a kind and nothing
\* else.
C9_Bounded ==
    /\ iters <= Len(s) + 1
    /\ pos <= Len(s)
    /\ pc = "loop" => ENABLED LoopStep
    /\ pc = "done" =>
          \/ result.tag = "Ok" /\ DOMAIN result = {"tag", "value", "raw"}
          \/ result \in {[tag |-> "Err", kind |-> k] : k \in ErrorKinds}

C9_Forward ==
    /\ pc = "loop" =>
          /\ s' = s
          /\ iters' = iters + 1
          /\ pos' >= pos
          /\ pos < Len(s) => c' = s[pos + 1] /\ pos' > pos
          /\ pos = Len(s) => pc' # "loop"
    /\ pc = "parse" => pc' = "done" /\ s' = s /\ iters' = iters /\ pos' = pos

C9_Terminates == []C9_Bounded /\ [][C9_Forward]_vars

\* C9 witness: a call that took Len(s) + 1 iterations, the last one finding
\* the end of the input.
C9_Witness ==
    /\ pc = "done"
    /\ Len(s) >= 3
    /\ iters = Len(s) + 1
    /\ result.tag = "Ok"

\* two floats that are the same number: the same bits, or zeros of any sign
SameNumeric(a, b) ==
    /\ ~F64IsNaN(a)
    /\ ~F64IsNaN(b)
    /\ a = b \/ (F64IsZero(a) /\ F64IsZero(b))

\* C10: two results with the same numeric value are equal whatever their raw
\* texts; == and partial_cmp are given by the two values alone.
C10_EqualByValue ==
    pc = "compared" =>
       /\ cmp.eq = SameNumeric(held.num.value, result.value)
       /\ SameNumeric(held.num.value, result.value) => cmp.ord = "Equal"
       /\ cmp.ord = F64PartialCmp(held.num.value, result.value)

\* C10 witness: a suffixed spelling and an exponent spelling of one value.
C10_Witness ==
    /\ pc = "compared"
    /\ held.num.raw = <<"1", "K">>
    /\ result.raw = <<"1", "e", "3">>
    /\ held.num.value = result.value
    /\ cmp.eq

\* C11: a non-empty input whose first character is no sign and no digit is
\* answered Invalid, also when that character is a letter or a point; never
\* InvalidMult.
C11_BadFirstChar ==
    (pc = "done" /\ Len(s) > 0 /\ s[1] \notin Signs \cup Digits)
    => result = Err("Invalid")

\* C11 witness: an input that starts with a letter that has a multiplier and
\* goes on with a digit.
C11_Witness ==
    /\ pc = "done"
    /\ Len(s) > 1
    /\ s[1] \in SingleLetters
    /\ s[2] \in Digits
    /\ result = Err("Invalid")

\* C12: in Int or Float a point is rejected with Invalid exactly when the
\* character read just before it was a point; after a digit or a leading
\* sign it is pushed on the buffer and the scan goes on, whether or not the
\* buffer holds an earlier point.
C12_Step ==
    (pc = "loop" /\ state \in {"Int", "Float"} /\ pos < Len(s) /\ s[pos + 1] = ".")
    => IF c = "."
       THEN pc' = "done" /\ result' = Err("Invalid")
       ELSE /\ c \in Digits \cup Signs
            /\ pc' = "loop"
            /\ result' = Pending
            /\ value_str' = Append(value_str, ".")

C12_PointAfterPoint == [][C12_Step]_vars

\* C12 witness: the scan goes on after it pushed a second point, one digit
\* after the first.
C12_Witness ==
    /\ pc = "loop"
    /\ Len(value_str) >= 4
    /\ value_str[Len(value_str)] = "."
    /\ value_str[Len(value_str) - 1] \in Digits
    /\ value_str[Len(value_str) - 2] = "."

\* the index of the first exponent marker of buf
FirstMarker(buf) ==
    CHOOSE i \in 1..Len(buf) :
        buf[i] \in ExpMarkers /\ \A j \in 1..(i - 1) : buf[j] \notin ExpMarkers

\* whether an optional sign and a digit follow index k of str
ExpDigitFollows(str, k) ==
    LET es == IF k + 1 <= Len(str) /\ str[k + 1] \in Signs THEN k + 2 ELSE k + 1
    IN  es <= Len(str) /\ str[es] \in Digits

\* C13: an input where the exponent marker taken in Int or Float is not
\* followed by an optional sign and a digit is answered Invalid: the marker
\* before another character, the marker at the end, the marker and a sign at
\* the end, the marker and a sign before what is no digit.
C13_ExponentNeedsDigit ==
    (/\ pc = "done"
     /\ HasExpMarker(value_str)
     /\ ~ExpDigitFollows(s, FirstMarker(value_str)))
    => result = Err("Invalid")

\* C13 witness: the marker and a sign, then a letter, which ends the scan in
\* Exp; the buffer fails to parse.
C13_Witness ==
    /\ pc = "done"
    /\ state = "Exp"
    /\ Len(value_str) >= 3
    /\ value_str[1] \in Digits
    /\ value_str[Len(value_str)] \in Signs
    /\ value_str[Len(value_str) - 1] \in ExpMarkers
    /\ pos = Len(value_str) + 1
    /\ c \in UpperLetters \cup LowerLetters
    /\ result = Err("Invalid")

\* C14: in Int or Float a character that is no digit, no point and no letter
\* is answered Invalid; so a sign after a leading sign and a sign between
\* digits.
C14_Step ==
    (/\ pc = "loop"
     /\ state \in {"Int", "Float"}
     /\ pos < Len(s)
     /\ s[pos + 1] \notin Digits \cup {"."} \cup UpperLetters \cup LowerLetters)
    => (pc' = "done" /\ result' = Err("Invalid"))

C14_BadMantissaChar == [][C14_Step]_vars

\* C14 witness: a sign right after the leading sign, answered Invalid.
C14_Witness ==
    /\ pc = "done"
    /\ state = "Int"
    /\ pos = 2
    /\ s[1] \in Signs
    /\ s[2] \in Signs
    /\ result = Err("Invalid")

\* what a result says apart from raw
Outcome(r) == IF r.tag = "Ok" THEN [tag |-> "Ok", value |-> r.value] ELSE r

\* how much of str the result may depend on, given the letter at index i
Horizon(str, i) ==
    IF ToAsciiUppercase(str[i]) = "M"
    THEN IF i + 2 <= Len(str) THEN i + 2 ELSE Len(str)
    ELSE i

\* C15: what follows a letter with a multiplier has no influence: for every
\* such letter in the input, the outcome and the value are those of the input
\* cut after the letter, and after the two characters that follow it when the
\* letter is M.
C15_TailIgnored ==
    pc = "done" =>
        \A i \in 1..Len(s) :
            ToAsciiUppercase(s[i]) \in KnownUpper =>
                Outcome(result) = Outcome(FromStr(SubSeq(s, 1, Horizon(s, i))))

\* C15 witness: a success at a letter with a multiplier, the tail after it
\* ending with a letter that has none.
C15_Witness ==
    /\ pc = "done"
    /\ result.tag = "Ok"
    /\ state \in {"Int", "Float"}
    /\ c \in SingleLetters
    /\ pos + 1 < Len(s)
    /\ IsUnknownLetter(s[Len(s)])
    /\ ~F64IsZero(result.value)

\* the number of exponent markers in buf
MarkerCount(buf) == Cardinality({i \in 1..Len(buf) : buf[i] \in ExpMarkers})

\* C16: when an iteration starts the state is given by the buffer: Start
\* exactly when it is empty, Float exactly when its last character is a
\* point, ExpStart exactly when its last character is e or E, and Exp only
\* when it holds one exponent marker with a sign or digit after it.
C16_StateFromBuffer ==
    pc = "loop" =>
       /\ state = "Start" <=> value_str = <<>>
       /\ state = "Float" <=> (value_str # <<>> /\ value_str[Len(value_str)] = ".")
       /\ state = "ExpStart" <=>
              (value_str # <<>> /\ value_str[Len(value_str)] \in ExpMarkers)
       /\ state = "Exp" =>
              /\ MarkerCount(value_str) = 1
              /\ FirstMarker(value_str) < Len(value_str)
              /\ value_str[FirstMarker(value_str) + 1] \in Signs \cup Digits

\* C16 witness: an iteration starts in Exp with a signed exponent in the
\* buffer, after a mantissa with a point.
C16_Witness ==
    /\ pc = "loop"
    /\ state = "Exp"
    /\ \E i \in 1..Len(value_str) : value_str[i] = "."
    /\ value_str[FirstMarker(value_str) + 1] \in Signs
    /\ value_str[Len(value_str)] \in Digits

IsPrefix(a, b) == Len(a) <= Len(b) /\ SubSeq(b, 1, Len(a)) = a

\* during a call of from_str
InCall == pc \in {"loop", "parse", "done"}

\* C17: the buffer is a prefix of the input, and the multiplier is 1.0 while
\* the scan runs; the multiplier changes only in the step that ends the scan
\* at a letter with a multiplier, met in Int or Float; the value of a success
\* is the parse of the buffer times the multiplier.
C17_Holds ==
    /\ InCall => IsPrefix(value_str, s)
    /\ pc = "loop" => mult = Lit1e(0) /\ Len(value_str) = pos
    /\ (pc = "done" /\ result.tag = "Ok") =>
           result.value = F64Mul(ParseF64(value_str).val, mult)

C17_Step ==
    (pc \in {"loop", "parse"} /\ mult' # mult)
    => /\ pc = "loop"
       /\ pc' = "parse"
       /\ state \in {"Int", "Float"}
       /\ pos < Len(s)
       /\ ToAsciiUppercase(s[pos + 1]) \in KnownUpper
       /\ value_str' = value_str

C17_BufferAndMultiplier == []C17_Holds /\ [][C17_Step]_vars

\* C17 witness: a success where the buffer is a proper prefix of the input
\* and the multiplier, other than 1.0, has scaled the parse of the buffer.
C17_Witness ==
    /\ pc = "done"
    /\ result.tag = "Ok"
    /\ mult # Lit1e(0)
    /\ Len(value_str) >= 3
    /\ Len(value_str) < Len(s)
    /\ result.value = F64Mul(ParseF64(value_str).val, mult)
    /\ result.value # ParseF64(value_str).val

\* where the run of digits and points of buf that starts at index i ends
MantissaRunEnd(buf, i) ==
    LET stops == {j \in i..Len(buf) : buf[j] \notin Digits \cup {"."}}
    IN  IF stops = {} THEN Len(buf) + 1
        ELSE CHOOSE j \in stops : \A k \in stops : j <= k

\* buf[from..to-1] is a mantissa: at least one digit, at most one point
IsMantissa(buf, from, to) ==
    /\ Cardinality({j \in from..(to - 1) : buf[j] \in Digits}) >= 1
    /\ Cardinality({j \in from..(to - 1) : buf[j] = "."}) <= 1

\* buf[at..] is an exponent: a marker, an optional sign, digits to the end
IsExponentPart(buf, at) ==
    LET es == IF at + 1 <= Len(buf) /\ buf[at + 1] \in Signs THEN at + 2 ELSE at + 1
    IN  /\ buf[at] \in ExpMarkers
        /\ es <= Len(buf)
        /\ \A j \in es..Len(buf) : buf[j] \in Digits

\* an optional sign, a mantissa, and optionally an exponent
HasNumberShape(buf) ==
    /\ buf # <<>>
    /\ LET from == IF buf[1] \in Signs THEN 2 ELSE 1
           to   == MantissaRunEnd(buf, from)
       IN  /\ IsMantissa(buf, from, to)
           /\ to = Len(buf) + 1 \/ IsExponentPart(buf, to)

\* C18: a success comes from a buffer with an optional sign, a mantissa with
\* at least one digit and at most one point, and optionally an exponent
\* marker with an optional sign and at least one digit.
C18_ParsedBufferShape ==
    (pc = "done" /\ result.tag = "Ok") => HasNumberShape(value_str)

\* C18 witness: a success from a buffer whose mantissa ends with its point,
\* right before the exponent marker.
C18_Witness ==
    /\ pc = "done"
    /\ result.tag = "Ok"
    /\ \E i \in 1..(Len(value_str) - 1) :
           value_str[i] = "." /\ value_str[i + 1] \in ExpMarkers
====
